---- MODULE Spec2Model ----
(***************************************************************************)
(* Model of recession_model.py: the FRED fetcher with retry and backoff    *)
(* (fred), the CAPE fallback (fetch_cape), the z-score normaliser (zscore),*)
(* the weighted logistic model (RecessionRiskModel2026) and the pipeline   *)
(* (compute_recession_probability).                                        *)
(*                                                                         *)
(* Numbers.  A Python float is modelled as a record [k, x]:                *)
(*   k = "num"  a finite number, x its integer payload                     *)
(*   k = "nan"  not-a-number                                               *)
(*   k = "inf"  an infinity, x = 1 or -1 its sign                          *)
(* Observations carry integer payloads in the unit of the series;          *)
(* z-scores are fixed-point in hundredths (truncated toward zero); the     *)
(* linear predictor of the model is in ten-thousandths.                    *)
(*                                                                         *)
(* Frames.  A one-column DataFrame is a sequence of rows [t, v] with t     *)
(* (the index, an integer date) strictly increasing and v a float.         *)
(***************************************************************************)
EXTENDS Integers, Sequences, FiniteSets, TLC

(***************************************************************************)
(* Bounds of the model                                                     *)
(***************************************************************************)
\* dates 1..MaxDate may occur in the frames the remote source serves for
\* DGS2, DGS3MO, BAMLH0A0HYM2 and CAPE
MaxDate == 2
\* the UNRATE frames served have between DiffPeriods and LagRows + UnExtra rows
UnExtra == 1
\* observation values a served frame may hold (besides a missing value)
Vals == {1, 2}

(***************************************************************************)
(* Floats                                                                  *)
(***************************************************************************)
Num(n) == [k |-> "num", x |-> n]
NaN == [k |-> "nan", x |-> 0]
Inf(s) == [k |-> "inf", x |-> s]
IsNa(c) == c.k = "nan"

\* a - b on floats (line 132, line 139)
FSub(a, b) ==
    IF IsNa(a) \/ IsNa(b) THEN NaN
    ELSE IF a.k = "inf" /\ b.k = "inf"
         THEN (IF a.x = b.x THEN NaN ELSE a)
    ELSE IF a.k = "inf" THEN a
    ELSE IF b.k = "inf" THEN Inf(0 - b.x)
    ELSE Num(a.x - b.x)

(***************************************************************************)
(* Frames                                                                  *)
(***************************************************************************)
Absent == [k |-> "absent", x |-> 0]

RECURSIVE SortSet(_)
SortSet(S) ==
    IF S = {} THEN << >>
    ELSE LET m == CHOOSE a \in S : \A b \in S : a <= b
         IN  <<m>> \o SortSet(S \ {m})

Idx(df) == {df[i].t : i \in DOMAIN df}
At(df, d) ==
    IF d \in Idx(df) THEN df[CHOOSE i \in DOMAIN df : df[i].t = d].v ELSE NaN

\* DataFrame.dropna() on a one-column frame: rows with a missing value removed
DropNa(df) == SelectSeq(df, LAMBDA r : ~IsNa(r.v))

\* DataFrame.empty
IsEmpty(df) == Len(df) = 0

\* the frames the remote source may serve for a yield series: every choice,
\* per date, of no row, a row with a missing value, or a row with a value
FrameOf(f) ==
    SelectSeq([d \in 1..MaxDate |-> [t |-> d, v |-> f[d]]],
              LAMBDA r : r.v.k # "absent")
Frames ==
    {FrameOf(f) : f \in [1..MaxDate -> {Absent, NaN} \cup {Num(n) : n \in Vals}]}

\* the frames the remote source may serve for the monthly UNRATE series: n
\* monthly rows, the rate 1 up to month knee and 2 after it
StepFrame(n, knee) ==
    [i \in 1..n |-> [t |-> i, v |-> Num(IF i <= knee THEN 1 ELSE 2)]]

\* the 12-month window of un["UNRATE"].diff(12) and the row iloc[-13] reads
DiffPeriods == 12
LagRows == 13

UnFrames ==
    UNION {{StepFrame(n, knee) : knee \in {1, n - 1, n}} :
              n \in DiffPeriods..(LagRows + UnExtra)}

\* the frames the remote source may serve for BAMLH0A0HYM2 and CAPE: n rows
\* at dates 1..n, the values 1, 1 + step, 1 + 2*step, ..., the last one
\* missing when gap
RampFrame(n, step, gap) ==
    [i \in 1..n |->
        [t |-> i, v |-> IF gap /\ i = n THEN NaN ELSE Num(1 + step * (i - 1))]]
RampFrames ==
    {RampFrame(n, step, gap) : n \in 1..MaxDate, step \in {0, 1}, gap \in BOOLEAN}

\* what web.DataReader(series, "fred", ...) may return for a series, besides
\* nothing
RemoteFrames(s) ==
    CASE s \in {"DGS2", "DGS3MO"} -> Frames
      [] s = "UNRATE" -> UnFrames
      [] OTHER -> RampFrames

\* pd.concat([df2, df3m], axis=1): outer join on the index, sorted
Concat(a, b) ==
    LET ts == SortSet(Idx(a) \cup Idx(b))
    IN  [i \in 1..Len(ts) |->
            [t |-> ts[i], DGS2 |-> At(a, ts[i]), DGS3MO |-> At(b, ts[i])]]

\* .dropna() on the two-column frame: rows with any missing value removed
DropNaRows_All(f) == SelectSeq(f, LAMBDA r : ~(IsNa(r.DGS2) /\ IsNa(r.DGS3MO)))
DropNaRows(f) == SelectSeq(f, LAMBDA r : ~IsNa(r.DGS2) /\ ~IsNa(r.DGS3MO))

\* yc["spread"] = yc["DGS2"] - yc["DGS3MO"]; the result is the spread column
Spread(f) == [i \in 1..Len(f) |-> [t |-> f[i].t, v |-> FSub(f[i].DGS2, f[i].DGS3MO)]]

\* yc["spread"] as built by lines 131-132
YieldCurve(df2, df3m) == Spread(DropNaRows(Concat(df2, df3m)))

\* series.iloc[-k]: defined when the series has at least k rows
HasILoc(s, k) == Len(s) >= k
ILoc(s, k) == s[Len(s) - k + 1].v

\* series.diff(p): the first p rows are missing values
Diff(s, p) ==
    [i \in 1..Len(s) |->
        [t |-> s[i].t, v |-> IF i > p THEN FSub(s[i].v, s[i - p].v) ELSE NaN]]

(***************************************************************************)
(* zscore                                                                  *)
(***************************************************************************)
\* the sum of the first k values of s, and of their squares
RECURSIVE SumTo(_, _)
SumTo(s, k) == IF k = 0 THEN 0 ELSE s[k].v.x + SumTo(s, k - 1)
RECURSIVE SumSqTo(_, _)
SumSqTo(s, k) == IF k = 0 THEN 0 ELSE s[k].v.x * s[k].v.x + SumSqTo(s, k - 1)
Sum(s) == SumTo(s, Len(s))
SumSq(s) == SumSqTo(s, Len(s))

\* n * (n - 1) * (sample variance) of the values of s
VarNumer(s) == Len(s) * SumSq(s) - Sum(s) * Sum(s)

\* the integer square root, by bisection
RECURSIVE Bisect(_, _, _)
Bisect(n, lo, hi) ==
    IF lo >= hi THEN lo
    ELSE LET mid == (lo + hi + 1) \div 2
         IN  IF mid * mid <= n THEN Bisect(n, mid, hi) ELSE Bisect(n, lo, mid - 1)
ISqrt(n) == Bisect(n, 0, IF n < 46340 THEN n ELSE 46340)

\* (current - mean) / std from n observations, with dev = n * (current - mean)
\* and vn = n * (n - 1) * variance: the quotient in hundredths, truncated
Quotient(n, dev, vn) ==
    LET sq == (10000 * dev * dev * (n - 1)) \div (n * vn)
    IN  Num((IF dev < 0 THEN -1 ELSE 1) * ISqrt(sq))

\* (current - series.mean()) / series.std(), in hundredths.  series.std() is
\* the sample standard deviation (ddof = 1): a missing value for fewer than 2
\* observations.  The operands are numpy floats: x / 0 is an infinity, 0 / 0
\* and anything with a missing value is a missing value.
ZFrom(n, sum, sumsq, current) ==
    IF IsNa(current) \/ n < 2 THEN NaN
    ELSE IF n * sumsq - sum * sum = 0
         THEN (IF n * current.x - sum = 0 THEN NaN
               ELSE Inf(IF n * current.x - sum > 0 THEN 1 ELSE -1))
    ELSE Quotient(n, n * current.x - sum, n * sumsq - sum * sum)

zscore(series, current) == ZFrom(Len(series), Sum(series), SumSq(series), current)

(***************************************************************************)
(* RecessionRiskModel2026                                                  *)
(***************************************************************************)
\* the weights, in hundredths
beta0 == -100
beta_yc == -45
beta_hy == 35
beta_u == 30
beta_cape == 25
beta_struct == 20
beta_ret == 20

\* IEEE-754 binary64, x in ten-thousandths: math.exp(-x) raises OverflowError
\* from x = -709.7828 down, and 1 + math.exp(-x) rounds to 1.0 from x = 36.7369 up
ExpOverflowAt == -7097828
OneAbsorbsAt == 367369

\* 1 / (1 + math.exp(-x)).  The result is [k, x]: k = "open" is the float
\* nearest 1/(1+e^(-x/10000)), strictly between 0 and 1; "one" and "zero" are
\* exactly 1.0 and 0.0; "nan" a missing value; "overflow" the OverflowError
\* math.exp raises
logistic(x) ==
    IF x.k = "nan" THEN [k |-> "nan", x |-> 0]
    ELSE IF x.k = "inf"
         THEN (IF x.x > 0 THEN [k |-> "one", x |-> 0] ELSE [k |-> "zero", x |-> 0])
    ELSE IF x.x <= ExpOverflowAt THEN [k |-> "overflow", x |-> 0]
    ELSE IF x.x >= OneAbsorbsAt THEN [k |-> "one", x |-> 0]
    ELSE [k |-> "open", x |-> x.x]

\* weight * z, the weight in hundredths
Term(w, z) ==
    IF z.k = "nan" THEN NaN
    ELSE IF z.k = "inf" THEN Inf(IF w > 0 THEN z.x ELSE 0 - z.x)
    ELSE Num(w * z.x)

\* a + b on floats
FAdd(a, b) ==
    IF IsNa(a) \/ IsNa(b) THEN NaN
    ELSE IF a.k = "inf" /\ b.k = "inf"
         THEN (IF a.x = b.x THEN a ELSE NaN)
    ELSE IF a.k = "inf" THEN a
    ELSE IF b.k = "inf" THEN b
    ELSE Num(a.x + b.x)

\* the weighted linear sum x of predict, in ten-thousandths
Linear(z_yc, z_hy, z_u, z_cape, z_struct, z_ret) ==
    FAdd(FAdd(FAdd(FAdd(FAdd(FAdd(Num(beta0 * 100),
        Term(beta_yc, z_yc)), Term(beta_hy, z_hy)), Term(beta_u, z_u)),
        Term(beta_cape, z_cape)), Term(beta_struct, z_struct)), Term(beta_ret, z_ret))

predict(z_yc, z_hy, z_u, z_cape, z_struct, z_ret) ==
    logistic(Linear(z_yc, z_hy, z_u, z_cape, z_struct, z_ret))

(***************************************************************************)
(* fred, fetch_cape and compute_recession_probability                      *)
(***************************************************************************)
VARIABLES
    pc,        \* where compute_recession_probability is: "call" (about to call
               \* fred for the next series), "fred" (inside fred), "score"
               \* (lines 144-174), "done" (returned), "failed" (raised)
    calls,     \* the series fred has been called with, in call order
    fstate,    \* per series: "idle", "running", "returned", "raised", "none"
    attempt,   \* fred's loop variable
    phase,     \* inside fred: "try", "diag" (except-block entered), "handled"
               \* (warning printed), "idle" (no call active)
    e,         \* the exception bound in the except-block ("none" outside it)
    fails,     \* failed attempts of this call
    probes,    \* session.get diagnostic requests of this call
    warned,    \* [FRED WARNING] lines printed by this call
    lastWarn,  \* the [FRED WARNING] line printed for the current attempt
    waits,     \* the time.sleep arguments of this call, in order
    served,    \* the frame the last successful web.DataReader call returned
    ret,       \* the frame fred returned to its caller
    df2, df3m, yc, hy, un, delta_u, cape,   \* locals of the pipeline
    zcalls,    \* the calls of zscore made: series, current and result
    error,     \* the exception the pipeline raised
    result,    \* << >>, or <<r>> with r the dict the pipeline returned
    pin, pout  \* arguments and result of the last call of predict

vars == <<pc, calls, fstate, attempt, phase, e, fails, probes, warned, lastWarn,
          waits, served, ret, df2, df3m, yc, hy, un, delta_u, cape, zcalls,
          error, result, pin, pout>>

fredVars == <<attempt, phase, e, fails, probes, warned, lastWarn, waits, served, ret>>
pipeVars == <<df2, df3m, yc, hy, un, delta_u, cape>>
outVars == <<zcalls, error, result, pin, pout>>
finalVars == <<zcalls, result, pin, pout>>

\* the fred calls of compute_recession_probability, in program order
\* (lines 128, 129, 135, 138 and, through fetch_cape, 142)
Order_Swapped == <<"DGS3MO", "DGS2", "BAMLH0A0HYM2", "UNRATE", "CAPE">>
Order == <<"DGS2", "DGS3MO", "BAMLH0A0HYM2", "UNRATE", "CAPE">>
Series == {Order[i] : i \in DOMAIN Order}

\* the series of the active (or last) call of fred
Cur == calls[Len(calls)]

NoError == [type |-> "none", series |-> "none"]
NoWarn == [kind |-> "none", detail |-> "none"]
NoP == [k |-> "none", x |-> 0]

Init ==
    /\ pc = "call"
    /\ calls = << >>
    /\ fstate = [s \in Series |-> "idle"]
    /\ attempt = 0
    /\ phase = "idle"
    /\ e = "none"
    /\ fails = 0
    /\ probes = 0
    /\ warned = 0
    /\ lastWarn = NoWarn
    /\ waits = << >>
    /\ served = << >>
    /\ ret = << >>
    /\ df2 = << >>
    /\ df3m = << >>
    /\ yc = << >>
    /\ hy = << >>
    /\ un = << >>
    /\ delta_u = NaN
    /\ cape = << >>
    /\ zcalls = << >>
    /\ error = NoError
    /\ result = << >>
    /\ pin = << >>
    /\ pout = NoP

\* for attempt in range(1, 4)
AttemptRange == 1..3

\* if attempt < 3: sleep and retry; else: raise
LastAttempt == 3
RetryDecision_OffByOne == IF attempt <= LastAttempt THEN "sleep" ELSE "raise"
RetryDecision_Steered ==
    IF lastWarn.kind = "html_page" THEN "raise"
    ELSE IF attempt < LastAttempt THEN "sleep" ELSE "raise"
RetryDecision == IF attempt < LastAttempt THEN "sleep" ELSE "raise"

\* wait = 2 ** (attempt - 1)
NextWait_Double(a) == 2 ^ a
NextWait(a) == 2 ^ (a - 1)

\* the warning the except-block prints for the outcome of the diagnostic
\* request: "html" (Content-Type has text/html), "other", "error" (it raised)
Classify(probe, exc) ==
    IF probe = "error" THEN [kind |-> "network_error", detail |-> "none"]
    ELSE IF probe = "html" THEN [kind |-> "html_page", detail |-> "none"]
    ELSE [kind |-> "fetch_failed", detail |-> exc]

\* fetch_cape wraps the call of fred for CAPE in try/except; the other calls
\* are bare
Absorbs_Nothing(s) == FALSE
Absorbs_All(s) == TRUE
Absorbs(s) == s = "CAPE"

\* pd.date_range(start, periods=n, freq="YS"), dates as years
DateRange(start, n) == [i \in 1..n |-> start + i - 1]

\* the frame fetch_cape substitutes
CapeFallback ==
    LET vals == <<22, 25, 30, 35, 38, 40>>
        idx == DateRange(2019, 6)
    IN  [i \in 1..Len(vals) |-> [t |-> idx[i], v |-> Num(vals[i])]]

\* the pipeline resumes after the call for series s returned frame r: the
\* statements up to the next call of fred
Resume(s, r) ==
    /\ df2' = IF s = "DGS2" THEN r ELSE df2
    /\ df3m' = IF s = "DGS3MO" THEN r ELSE df3m
    /\ yc' = IF s = "DGS3MO" THEN YieldCurve(df2, r) ELSE yc
    /\ hy' = IF s = "BAMLH0A0HYM2" THEN r ELSE hy
    /\ un' = IF s = "UNRATE" THEN r ELSE un
    /\ delta_u' = IF s = "UNRATE" /\ HasILoc(r, LagRows)
                  THEN FSub(ILoc(r, 1), ILoc(r, LagRows))
                  ELSE delta_u
    /\ cape' = IF s = "CAPE" THEN r ELSE cape
    /\ IF s = "UNRATE" /\ ~HasILoc(r, LagRows)
       THEN /\ pc' = "failed"
            /\ error' = [type |-> "IndexError", series |-> "none"]
       ELSE /\ pc' = IF s = "CAPE" THEN "score" ELSE "call"
            /\ error' = error

\* fred(series) is called: the loop starts with attempt 1.  df2 and df3m are
\* not read after line 132; they are forgotten when the next call starts
Call ==
    /\ pc = "call"
    /\ Len(calls) < Len(Order)
    /\ LET s == Order[Len(calls) + 1]
       IN  /\ calls' = Append(calls, s)
           /\ fstate' = [fstate EXCEPT ![s] = "running"]
           /\ df2' = IF s = "BAMLH0A0HYM2" THEN << >> ELSE df2
           /\ df3m' = IF s = "BAMLH0A0HYM2" THEN << >> ELSE df3m
    /\ pc' = "fred"
    /\ attempt' = 1
    /\ phase' = "try"
    /\ e' = "none"
    /\ fails' = 0
    /\ probes' = 0
    /\ warned' = 0
    /\ lastWarn' = NoWarn
    /\ waits' = << >>
    /\ served' = << >>
    /\ ret' = << >>
    /\ UNCHANGED <<yc, hy, un, delta_u, cape>>
    /\ UNCHANGED outVars

\* web.DataReader returns a non-empty frame: fred returns df.dropna()
AttemptOk ==
    /\ pc = "fred"
    /\ phase = "try"
    /\ \E df \in RemoteFrames(Cur) :
        /\ ~IsEmpty(df)
        /\ served' = df
        /\ ret' = DropNa(df)
        /\ Resume(Cur, DropNa(df))
    /\ fstate' = [fstate EXCEPT ![Cur] = "returned"]
    /\ phase' = "idle"
    /\ UNCHANGED <<calls, attempt, e, fails, probes, warned, lastWarn, waits>>
    /\ UNCHANGED finalVars

\* web.DataReader raises ("transport"), or returns None or an empty frame and
\* line 45 raises ValueError ("empty"): the except-block is entered
AttemptFail ==
    /\ pc = "fred"
    /\ phase = "try"
    /\ \E exc \in {"transport", "empty"} : e' = exc
    /\ fails' = fails + 1
    /\ phase' = "diag"
    /\ UNCHANGED <<pc, calls, fstate, attempt, probes, warned, lastWarn, waits,
                   served, ret>>
    /\ UNCHANGED pipeVars
    /\ UNCHANGED outVars

\* session.get(url, timeout=5) and the warning printed for its outcome
Diagnose ==
    /\ pc = "fred"
    /\ phase = "diag"
    /\ \E probe \in {"html", "other", "error"} : lastWarn' = Classify(probe, e)
    /\ probes' = probes + 1
    /\ warned' = warned + 1
    /\ phase' = "handled"
    /\ UNCHANGED <<pc, calls, fstate, attempt, e, fails, waits, served, ret>>
    /\ UNCHANGED pipeVars
    /\ UNCHANGED outVars

\* attempt < 3: time.sleep(wait), then the loop goes on with the next value of
\* the range; when the range is used up the loop ends and fred returns None,
\* which the pipeline cannot use
Backoff ==
    /\ pc = "fred"
    /\ phase = "handled"
    /\ RetryDecision = "sleep"
    /\ waits' = Append(waits, NextWait(attempt))
    /\ IF attempt + 1 \in AttemptRange
       THEN /\ attempt' = attempt + 1
            /\ phase' = "try"
            /\ UNCHANGED <<pc, fstate, error>>
       ELSE /\ attempt' = attempt
            /\ phase' = "idle"
            /\ fstate' = [fstate EXCEPT ![Cur] = "none"]
            /\ pc' = "failed"
            /\ error' = [type |-> "TypeError", series |-> Cur]
    /\ e' = "none"
    /\ lastWarn' = NoWarn
    /\ UNCHANGED <<calls, fails, probes, warned, served, ret>>
    /\ UNCHANGED pipeVars
    /\ UNCHANGED finalVars

\* the last attempt failed: fred raises RuntimeError.  fetch_cape catches it
\* and substitutes its frame; from a bare call it ends the pipeline
Exhaust ==
    /\ pc = "fred"
    /\ phase = "handled"
    /\ RetryDecision = "raise"
    /\ fstate' = [fstate EXCEPT ![Cur] = "raised"]
    /\ phase' = "idle"
    /\ IF Absorbs(Cur)
       THEN Resume(Cur, CapeFallback)
       ELSE /\ pc' = "failed"
            /\ error' = [type |-> "RuntimeError", series |-> Cur]
            /\ UNCHANGED pipeVars
    /\ e' = "none"
    /\ lastWarn' = NoWarn
    /\ UNCHANGED <<calls, attempt, fails, probes, warned, waits, served, ret>>
    /\ UNCHANGED finalVars

\* the four zscore calls of lines 145-148, in order: the history each is given
ZHistory(i) ==
    CASE i = 1 -> yc
      [] i = 2 -> hy
      [] i = 3 -> DropNa(Diff(un, DiffPeriods))
      [] i = 4 -> cape

\* evaluating the arguments of call i raises IndexError: .iloc[-1] of an
\* empty column (call 3 is given delta_u, computed at line 139)
ArgRaises(i) == i # 3 /\ ~HasILoc(ZHistory(i), 1)

ZCurrent(i) == IF i = 3 THEN delta_u ELSE ILoc(ZHistory(i), 1)

ZCall(i) ==
    [series |-> ZHistory(i), current |-> ZCurrent(i),
     z |-> zscore(ZHistory(i), ZCurrent(i))]

\* z_struct = 1.0, z_ret = 1.0
z_struct == Num(100)
z_ret == Num(100)

\* the state of fred when no call has been made or the last one is forgotten
FredIdle ==
    /\ attempt' = 0
    /\ phase' = "idle"
    /\ e' = "none"
    /\ fails' = 0
    /\ probes' = 0
    /\ warned' = 0
    /\ lastWarn' = NoWarn
    /\ waits' = << >>
    /\ served' = << >>
    /\ ret' = << >>

\* lines 144-174: the z-scores, the prediction and the returned dict; the
\* record of the last call of fred is dropped
Score ==
    /\ pc = "score"
    /\ LET bad == {i \in 1..4 : ArgRaises(i)}
           made == IF bad = {} THEN 4
                   ELSE (CHOOSE i \in bad : \A j \in bad : i <= j) - 1
           zs == [i \in 1..made |-> ZCall(i)]
       IN  /\ zcalls' = zs
           /\ IF made < 4
              THEN /\ pc' = "failed"
                   /\ error' = [type |-> "IndexError", series |-> "none"]
                   /\ UNCHANGED <<result, pin, pout>>
              ELSE LET args == <<zs[1].z, zs[2].z, zs[3].z, zs[4].z, z_struct, z_ret>>
                       p == predict(args[1], args[2], args[3], args[4], args[5], args[6])
                   IN  /\ pin' = args
                       /\ pout' = p
                       /\ IF p.k = "overflow"
                          THEN /\ pc' = "failed"
                               /\ error' = [type |-> "OverflowError", series |-> "none"]
                               /\ UNCHANGED result
                          ELSE /\ pc' = "done"
                               /\ error' = error
                               /\ result' =
                                    <<[probability |-> p,
                                       z |-> [YieldCurve |-> args[1],
                                              HYSpread |-> args[2],
                                              UnemploymentD12M |-> args[3],
                                              CAPE |-> args[4],
                                              Structural |-> args[5],
                                              RetireeWealth |-> args[6]],
                                       raw |-> [spread |-> yc, hy |-> hy,
                                                unrate |-> un, cape |-> cape]]>>
    /\ FredIdle
    /\ UNCHANGED <<calls, fstate>>
    /\ UNCHANGED pipeVars

Next == Call \/ AttemptOk \/ AttemptFail \/ Diagnose \/ Backoff \/ Exhaust \/ Score

Spec == Init /\ [][Next]_vars

(***************************************************************************)
(* predict on its own: the six inputs drawn from a set of z-scores         *)
(***************************************************************************)
\* z-scores, in hundredths, a call of predict is given
ZInputs == {Num(-200000), Num(-100), Num(0), Num(100), Num(20000), Num(200000)}

InitPredict ==
    /\ pc = "predict"
    /\ calls = << >>
    /\ fstate = [s \in Series |-> "idle"]
    /\ attempt = 0
    /\ phase = "idle"
    /\ e = "none"
    /\ fails = 0
    /\ probes = 0
    /\ warned = 0
    /\ lastWarn = NoWarn
    /\ waits = << >>
    /\ served = << >>
    /\ ret = << >>
    /\ df2 = << >>
    /\ df3m = << >>
    /\ yc = << >>
    /\ hy = << >>
    /\ un = << >>
    /\ delta_u = NaN
    /\ cape = << >>
    /\ zcalls = << >>
    /\ error = NoError
    /\ result = << >>
    /\ pin \in [1..6 -> ZInputs]
    /\ pout = NoP

\* model.predict(z_yc, z_hy, z_u, z_cape, z_struct, z_ret)
PredictCall ==
    /\ pc = "predict"
    /\ pout' = predict(pin[1], pin[2], pin[3], pin[4], pin[5], pin[6])
    /\ pc' = "predicted"
    /\ UNCHANGED <<calls, fstate, zcalls, error, result, pin>>
    /\ UNCHANGED fredVars
    /\ UNCHANGED pipeVars

SpecPredict == InitPredict /\ [][PredictCall]_vars

(***************************************************************************)
(* Properties                                                              *)
(***************************************************************************)
\* the record of the last call of fred is still in the state
Recorded == attempt > 0

Required == {"DGS2", "DGS3MO", "BAMLH0A0HYM2", "UNRATE"}

\* C1 (exhaustion): fred never makes a 4th attempt; a call whose 3 attempts
\* have all failed is in its except-block or has raised, and a call that has
\* raised made exactly 3 attempts, all failed, and returned no frame of its
\* own; the step after the handling of the 3rd failure is the raise.
C1_Exhaustion ==
    /\ [](/\ attempt <= 3
          /\ fails <= 3
          /\ (Recorded /\ fails = 3) =>
                 (phase \in {"diag", "handled"} \/ fstate[Cur] = "raised")
          /\ \A s \in Series :
                 (fstate[s] = "raised" /\ Recorded) =>
                     /\ s = Cur
                     /\ attempt = 3
                     /\ fails = 3
                     /\ ret = << >>
                     /\ served = << >>)
    /\ [][(phase = "handled" /\ fails = 3) =>
            /\ fstate' = [fstate EXCEPT ![Cur] = "raised"]
            /\ attempt' = attempt
            /\ fails' = fails
            /\ ret' = << >>]_vars

C1_Witness ==
    /\ fstate["DGS2"] = "raised"
    /\ pc = "failed"
    /\ fails = 3

\* C2 (retry): whatever the attempt that succeeds, fred returns the served
\* frame without its missing rows, and when attempt k is running or has
\* succeeded the call has slept 2^(i-1) seconds after each failed attempt i < k:
\* nothing, 1s, or 1s then 2s (3s in total before a third attempt returns).
C2_RetryBackoff ==
    (Recorded /\ (phase = "try" \/ fstate[Cur] = "returned")) =>
        /\ fails = attempt - 1
        /\ waits = SubSeq(<<1, 2>>, 1, attempt - 1)
        /\ (attempt = 3 => waits[1] + waits[2] = 3)
        /\ fstate[Cur] = "returned" => ret = DropNa(served)

C2_Witness ==
    /\ Recorded
    /\ fstate[Cur] = "returned"
    /\ attempt = 3
    /\ waits = <<1, 2>>
    /\ Len(ret) > 0

\* C3 (fallback): fetch_cape never fails.  When fred raises for CAPE the frame
\* used is the 6-point annual series 22, 25, 30, 35, 38, 40 at 2019..2024 and
\* the pipeline goes on; when fred returns, the frame used is the one returned.
C3_Fallback ==
    /\ error.type = "RuntimeError" => error.series # "CAPE"
    /\ fstate["CAPE"] \in {"returned", "raised"} =>
           /\ pc \in {"score", "done", "failed"}
           /\ pc = "failed" => error.type \in {"IndexError", "OverflowError"}
    /\ fstate["CAPE"] = "raised" =>
           cape = <<[t |-> 2019, v |-> Num(22)], [t |-> 2020, v |-> Num(25)],
                    [t |-> 2021, v |-> Num(30)], [t |-> 2022, v |-> Num(35)],
                    [t |-> 2023, v |-> Num(38)], [t |-> 2024, v |-> Num(40)]>>
    /\ (fstate["CAPE"] = "returned" /\ Recorded) =>
           cape = ret /\ ret = DropNa(served)

C3_Witness ==
    /\ fstate["CAPE"] = "raised"
    /\ pc = "done"
    /\ Len(result) = 1
    /\ result[1].raw.cape[6].v = Num(40)

\* C4 (pipeline abort): once the fetch of a required series has raised, the
\* run has failed with that error, no zscore was computed and nothing is
\* returned; a failed run never returns a result; and a run never fails with
\* the fetch failure of CAPE: a run that fails after it does so over an empty
\* spread or high-yield series.
C4_PipelineAbort ==
    /\ \A s \in Required :
           fstate[s] = "raised" =>
               /\ pc = "failed"
               /\ error = [type |-> "RuntimeError", series |-> s]
               /\ zcalls = << >>
               /\ result = << >>
    /\ pc = "failed" => result = << >>
    /\ (pc = "failed" /\ error.type = "RuntimeError") => error.series \in Required
    /\ (fstate["CAPE"] = "raised" /\ pc = "failed") =>
           /\ error.type # "RuntimeError"
           /\ Len(yc) = 0 \/ Len(hy) = 0

C4_Witness ==
    /\ fstate["UNRATE"] = "raised"
    /\ pc = "failed"
    /\ fstate["CAPE"] = "idle"

\* C5 (z-scoring precondition): every series given to zscore has at least 2
\* observations and non-zero variance.
C5_ZScorePrecondition ==
    \A i \in DOMAIN zcalls :
        /\ Len(zcalls[i].series) >= 2
        /\ VarNumer(zcalls[i].series) # 0

\* the order of the results of logistic
PRank(p) ==
    CASE p.k = "zero" -> ExpOverflowAt - 1
      [] p.k = "open" -> p.x
      [] p.k = "one" -> OneAbsorbsAt
      [] OTHER -> 0
PIsNumber(p) == p.k \in {"zero", "open", "one"}

PredictWith(v, i, z) ==
    LET w == [v EXCEPT ![i] = z]
    IN  predict(w[1], w[2], w[3], w[4], w[5], w[6])

\* C6 (predict): predict returns a value strictly between 0 and 1, and
\* raising one input (the others fixed) does not lower the result for the
\* inputs 2..6 and does not raise it for input 1, the yield curve.
C6_PredictRangeMonotone ==
    pc = "predicted" =>
        /\ pout.k = "open"
        /\ \A i \in 1..6 : \A z \in ZInputs :
               z.x >= pin[i].x =>
                   /\ PIsNumber(PredictWith(pin, i, z))
                   /\ IF i = 1
                      THEN PRank(PredictWith(pin, i, z)) <= PRank(pout)
                      ELSE PRank(PredictWith(pin, i, z)) >= PRank(pout)

\* C7 (diagnosis does not steer): each failed attempt is followed by exactly
\* one diagnostic request and one warning; the diagnostic step changes nothing
\* but those; and the step after it depends on the attempt number alone: sleep
\* 2^(attempt-1) and try again before the 3rd attempt, raise after it.
C7_DiagnosisDoesNotSteer ==
    /\ [](/\ probes = warned
          /\ probes = IF phase = "diag" THEN fails - 1 ELSE fails)
    /\ [][phase = "diag" =>
            /\ phase' = "handled"
            /\ probes' = probes + 1
            /\ warned' = warned + 1
            /\ lastWarn'.kind \in {"html_page", "fetch_failed", "network_error"}
            /\ UNCHANGED <<pc, calls, fstate, attempt, fails, waits, ret, error,
                           result>>]_vars
    /\ [][phase = "handled" =>
            IF attempt < 3
            THEN /\ attempt' = attempt + 1
                 /\ phase' = "try"
                 /\ waits' = Append(waits, 2 ^ (attempt - 1))
                 /\ UNCHANGED <<pc, fstate, fails>>
            ELSE /\ fstate' = [fstate EXCEPT ![Cur] = "raised"]
                 /\ UNCHANGED <<attempt, waits, fails>>]_vars

C7_Witness ==
    /\ phase = "handled"
    /\ attempt = 2
    /\ lastWarn.kind = "network_error"
    /\ probes = 2
    /\ warned = 2

\* C8 (sequential fetch order): at most one fetch is running; the fetches made
\* are a prefix of DGS2, DGS3MO, BAMLH0A0HYM2, UNRATE, CAPE; a fetch has
\* started only if every earlier one returned; and each fetch starts at
\* attempt 1 with no failure counted and never goes beyond attempt 3.
C8_SequentialOrder ==
    /\ [](/\ Cardinality({s \in Series : fstate[s] = "running"}) <= 1
          /\ \E n \in 0..5 :
                 calls = SubSeq(<<"DGS2", "DGS3MO", "BAMLH0A0HYM2", "UNRATE", "CAPE">>,
                                1, n)
          /\ \A s \in Series :
                 fstate[s] # "idle" <=> \E i \in DOMAIN calls : calls[i] = s
          /\ \A i \in DOMAIN calls :
                 \A j \in 1..(i - 1) : fstate[calls[j]] = "returned"
          /\ \A s \in Series : fstate[s] = "running" => (s = Cur /\ attempt \in 1..3))
    /\ [][Len(calls') > Len(calls) =>
            /\ attempt' = 1
            /\ fails' = 0
            /\ waits' = << >>
            /\ fstate'[calls'[Len(calls')]] = "running"]_vars

C8_Witness ==
    /\ fstate["CAPE"] = "running"
    /\ attempt = 3
    /\ phase = "try"

\* C9 (spread alignment): the spread series has an entry at a date exactly
\* when both fetched yield series have a row at it, the entry is the 2-year
\* value minus the 3-month value, the entries are in date order; and the
\* first zscore call is given that series and its last entry.
C9_SpreadAlignment ==
    /\ (fstate["DGS3MO"] = "returned" /\ fstate["BAMLH0A0HYM2"] = "idle") =>
           /\ {yc[i].t : i \in DOMAIN yc} =
                  {df2[i].t : i \in DOMAIN df2} \cap {df3m[i].t : i \in DOMAIN df3m}
           /\ \A i \in DOMAIN yc :
                  \E j \in DOMAIN df2 : \E k \in DOMAIN df3m :
                      /\ df2[j].t = yc[i].t
                      /\ df3m[k].t = yc[i].t
                      /\ yc[i].v = Num(df2[j].v.x - df3m[k].v.x)
           /\ \A i \in DOMAIN yc : \A j \in DOMAIN yc : i < j => yc[i].t < yc[j].t
    /\ zcalls # << >> =>
           /\ zcalls[1].series = yc
           /\ zcalls[1].current = yc[Len(yc)].v

C9_Witness ==
    /\ fstate["DGS3MO"] = "returned"
    /\ fstate["BAMLH0A0HYM2"] = "idle"
    /\ Len(df2) = 2
    /\ Len(df3m) = 1
    /\ Len(yc) = 1
    /\ yc[1].v = Num(-1)

\* C10 (fetch exhaustion is the only failure): when the fetches of the four
\* required series have returned and the run is over, it has returned a
\* result with a probability, six z-scores and four raw series.
C10_OnlyFetchFailureAborts ==
    ((\A s \in Required : fstate[s] = "returned") /\ pc \in {"done", "failed"}) =>
        /\ pc = "done"
        /\ Len(result) = 1
        /\ DOMAIN result[1].z =
               {"YieldCurve", "HYSpread", "UnemploymentD12M", "CAPE", "Structural",
                "RetireeWealth"}
        /\ DOMAIN result[1].raw = {"spread", "hy", "unrate", "cape"}

====
